---- MODULE Spec2Model ----
(***************************************************************************)
(* AtomLog: a process-wide Logger singleton (src/Atom_Log/AtomLog.cpp).    *)
(*                                                                         *)
(* The model has two specifications over the same state:                   *)
(*   Spec      one caller thread; every call runs to completion, so each   *)
(*             action is a whole call of set_log_level, log or a macro.    *)
(*   ConcSpec  several caller threads; a call is split at its accesses to  *)
(*             shared state: the atomic load / store of log_level_ and     *)
(*             each operator<< on std::cout / std::cerr.                   *)
(*                                                                         *)
(* A stream is the sequence of tokens inserted into it so far.  A token is *)
(* a string; every token carries the number of the call that inserted it   *)
(* (a history tag, not part of the bytes).                                 *)
(***************************************************************************)
EXTENDS Integers, Sequences, FiniteSets, TLC

\* ------------------------------------------------------------------ bounds

\* Calls made in a run of Spec.
MaxCalls == 3
\* Caller threads of ConcSpec, and calls made in a run of ConcSpec.
NThreads == 2
MaxConcCalls == 2

\* --------------------------------------------------------------- LogLevel

DEBUG == 0
INFO == 1
WARN == 2
ERROR == 3

\* The enumerators of LogLevel.
LogLevel == {DEBUG, INFO, WARN, ERROR}

\* Values a LogLevel object can hold: the enumerators and, the underlying
\* type being int, values with no enumerator (one below, one above).
LevelValues == (DEBUG - 1)..(ERROR + 1)

\* ------------------------------------------------------------- the inputs

\* const char* file: the null pointer, or a pointer to a file name.
NULL == "<nullptr>"
FILE_ == "AtomLog.cpp"
Files == {NULL, FILE_}

\* int line, as passed to log directly.
Lines == {-1, 0, 174}

\* __LINE__ at the call sites of LOG_WARN and LOG_ERROR in main.
CallSiteLines == {174, 177}

Messages == {"x", "y"}

\* system_clock::now(), in milliseconds since the epoch.
Times == {1042}

\* The inputs of the calls made by the threads of ConcSpec.
ConcMessages == {"z"}
ConcFiles == {FILE_}
ConcLines == {174}

\* ------------------------------------------------------------ the escapes

RESET == "ESC[0m"
CYAN == "ESC[36m"
YELLOW == "ESC[33m"
RED == "ESC[31m"
ENDL == "\n"

\* ------------------------------------------------------------------- state

VARIABLES
    log_level_,   \* std::atomic<LogLevel> log_level_
    cout,         \* tokens inserted into std::cout
    cerr,         \* tokens inserted into std::cerr
    calls,        \* number of calls made so far
    last,         \* history: the last completed call of Spec
    prev,         \* history: the call before it
    configured,   \* history: argument of the latest set_log_level call
    pc,           \* ConcSpec: where each thread is
    frame,        \* ConcSpec: each thread's arguments and locals
    started,      \* history: arguments of the set_log_level calls begun
    reads         \* ConcSpec history: values log's filter has loaded

vars == <<log_level_, cout, cerr, calls, last, prev, configured, pc, frame, started, reads>>

Threads == 1..NThreads

\* ---------------------------------------------------- the Logger's tables

\* Logger::Logger: level_strings_ after construction.
level_strings_ ==
    (INFO :> "INFO") @@ (WARN :> "WARN") @@ (ERROR :> "ERROR") @@ (DEBUG :> "DEBUG")

\* Logger::Logger: colors_ after construction.
colors_ ==
    (INFO :> RESET) @@ (DEBUG :> CYAN) @@ (WARN :> YELLOW) @@ (ERROR :> RED)

\* Variant: the lookup done with operator[] in place of find, so that a
\* missing key yields the empty string.
level_to_string_subscript(level) ==
    IF level \in DOMAIN level_strings_ THEN level_strings_[level] ELSE ""

level_to_string(level) ==
    IF level \in DOMAIN level_strings_ THEN level_strings_[level] ELSE "UNKNOWN"

level_to_color(level) ==
    IF level \in DOMAIN colors_ THEN colors_[level] ELSE RESET

\* ------------------------------------------------------------ the timestamp

\* duration_cast<milliseconds>(now.time_since_epoch()) % 1000
ms_count(now) == now % 1000

\* system_clock::to_time_t(now)
to_time_t(now) == now \div 1000

RECURSIVE Zeros(_)
Zeros(n) == IF n <= 0 THEN "" ELSE "0" \o Zeros(n - 1)

\* std::setfill('0') << std::setw(w) << n
setfill0_setw(w, n) == Zeros(w - Len(ToString(n))) \o ToString(n)

\* std::put_time(&bt, "%Y-%m-%d %H:%M:%S"), for a time in the first day of
\* the epoch and a local zone at offset 0.
put_time(timer) ==
    "1970-01-01 " \o setfill0_setw(2, (timer \div 3600) % 24)
        \o ":" \o setfill0_setw(2, (timer \div 60) % 60)
        \o ":" \o setfill0_setw(2, timer % 60)

\* ------------------------------------------------------------ log, by parts

\* Variant: the threshold main's commented-out set_log_level call would set.
DefaultWarn == WARN

\* The initializer of log_level_.
DefaultLevel == INFO

\* The level the filter compares with: log_level_.load(relaxed).  The
\* stores to one atomic object are totally ordered and a load returns the
\* value of one of them; log_level_ is the only shared object a call reads,
\* so a load that returns an older store is the same load taken earlier in
\* the interleaving.
load == log_level_

\* Variant: a store that is not atomic and leaves the old value's high bit
\* beside the new value's low bit.
store_torn(desired) == ((log_level_ \div 2) * 2) + (desired % 2)

\* What log_level_.store(desired, relaxed) leaves in log_level_.
store(desired) == desired

\* Variant: the store left out.
set_log_level_dropped(level) == log_level_

\* Variant: the argument taken as a step from the current threshold.
set_log_level_relative(level) ==
    IF log_level_ + level > ERROR THEN ERROR ELSE log_level_ + level

\* What set_log_level(level) leaves in log_level_.
set_log_level(level) == store(level)

\* Variant: the comparison made with <= in place of <.
Suppressed_le(level, threshold) == level <= threshold

\* level < log_level_.load(): the call returns at once.
Suppressed(level, threshold) == level < threshold

\* Variant: the test of line left out.
HasLocation_noline(level, file, line) == level >= WARN /\ file # NULL

\* The condition under which the location is appended.
HasLocation(level, file, line) == level >= WARN /\ file # NULL /\ line > 0

\* The contents of the ostringstream at the end of log's formatting, one
\* token for each operator<< applied to it.
Assemble(level, message, file, line, now) ==
    <<put_time(to_time_t(now)), ".", setfill0_setw(3, ms_count(now)),
      " [", level_to_string(level), "] ", message>>
    \o (IF HasLocation(level, file, line)
        THEN <<" [at ", file, ":", ToString(line), "]">>
        ELSE <<>>)

\* Variant: the routing test made with > in place of >=.
Inserts_gt(level, text) ==
    IF level > WARN
    THEN [stream |-> "cerr", chunks |-> << <<level_to_color(level)>>, text, <<RESET>>, <<ENDL>> >>]
    ELSE [stream |-> "cout", chunks |-> <<text, <<ENDL>>>>]

\* The insertions log makes, in order: the stream, and for each operator<<
\* the tokens it inserts (stream.str() is inserted by one operator<<).
Inserts(level, text) ==
    IF level >= WARN
    THEN [stream |-> "cerr", chunks |-> << <<level_to_color(level)>>, text, <<RESET>>, <<ENDL>> >>]
    ELSE [stream |-> "cout", chunks |-> <<text, <<ENDL>>>>]

RECURSIVE Flatten(_)
Flatten(chunks) ==
    IF chunks = <<>> THEN <<>> ELSE Head(chunks) \o Flatten(Tail(chunks))

Tag(id, toks) == [i \in 1..Len(toks) |-> [by |-> id, tok |-> toks[i]]]

Nothing == [out |-> <<>>, err |-> <<>>]

\* A whole call of Logger::log by the only running thread: what it appends
\* to std::cout (out) and to std::cerr (err).
log(level, message, file, line, now, id) ==
    IF Suppressed(level, load)
    THEN Nothing
    ELSE LET ins == Inserts(level, Assemble(level, message, file, line, now))
             toks == Tag(id, Flatten(ins.chunks))
         IN  IF ins.stream = "cerr"
             THEN [out |-> <<>>, err |-> toks]
             ELSE [out |-> toks, err |-> <<>>]

\* ---------------------------------------------------------------- the macros

LOG_INFO(msg, now, id) == log(INFO, msg, NULL, 0, now, id)

LOG_DEBUG(msg, now, id) == log(DEBUG, msg, NULL, 0, now, id)

LOG_WARN(msg, line__, now, id) == log(WARN, msg, FILE_, line__, now, id)

LOG_ERROR(msg, line__, now, id) == log(ERROR, msg, FILE_, line__, now, id)

LOG_CUSTOM(level, msg, now, id) == log(level, msg, NULL, 0, now, id)

\* Variant: the macro without its if.
LOG_IF_unchecked(condition, level, msg, now, id) == log(level, msg, NULL, 0, now, id)

LOG_IF(condition, level, msg, now, id) ==
    IF condition THEN log(level, msg, NULL, 0, now, id) ELSE Nothing

\* ---------------------------------------------------------------- Init

NoCall ==
    [op |-> "none", level |-> INFO, message |-> "", file |-> NULL, line |-> 0,
     cond |-> TRUE, threshold |-> INFO, nout |-> 0, nerr |-> 0, id |-> 0]

NoPrev == [op |-> "none", level |-> INFO, before |-> INFO, after |-> INFO]

NoFrame ==
    [level |-> INFO, message |-> "", file |-> NULL, line |-> 0, id |-> 0,
     stream |-> "cout", chunks |-> <<>>]

\* The state once Logger::instance() has constructed the singleton.
Init ==
    /\ log_level_ = DefaultLevel
    /\ cout = <<>>
    /\ cerr = <<>>
    /\ calls = 0
    /\ last = NoCall
    /\ prev = NoPrev
    /\ configured = INFO
    /\ pc = [t \in Threads |-> "idle"]
    /\ frame = [t \in Threads |-> NoFrame]
    /\ started = {}
    /\ reads = {}

\* ------------------------------------------------- Spec: one caller thread

Summary(c, after) ==
    [op |-> IF c.op = "set_log_level" THEN "set_log_level" ELSE "log",
     level |-> IF c.op = "set_log_level" THEN c.level ELSE INFO,
     before |-> c.threshold,
     after |-> after]

\* A call that writes `w` and leaves the threshold alone.
Writes(op, level, message, file, line, cond, w) ==
    /\ calls < MaxCalls
    /\ cout' = cout \o w.out
    /\ cerr' = cerr \o w.err
    /\ calls' = calls + 1
    /\ last' = [op |-> op, level |-> level, message |-> message, file |-> file,
                line |-> line, cond |-> cond, threshold |-> log_level_,
                nout |-> Len(cout), nerr |-> Len(cerr), id |-> calls + 1]
    /\ prev' = Summary(last, log_level_)
    /\ UNCHANGED <<log_level_, configured, pc, frame, started, reads>>

Do_set_log_level ==
    \E level \in LogLevel :
        /\ calls < MaxCalls
        /\ log_level_' = set_log_level(level)
        /\ configured' = level
        /\ started' = started \cup {level}
        /\ calls' = calls + 1
        /\ last' = [NoCall EXCEPT !.op = "set_log_level", !.level = level,
                                  !.threshold = log_level_, !.nout = Len(cout),
                                  !.nerr = Len(cerr), !.id = calls + 1]
        /\ prev' = Summary(last, log_level_)
        /\ UNCHANGED <<cout, cerr, pc, frame, reads>>

Do_log ==
    \E level \in LevelValues, message \in Messages, file \in Files,
       line \in Lines, now \in Times :
        Writes("log", level, message, file, line, TRUE,
               log(level, message, file, line, now, calls + 1))

Do_LOG_INFO ==
    \E msg \in Messages, now \in Times :
        Writes("LOG_INFO", INFO, msg, NULL, 0, TRUE, LOG_INFO(msg, now, calls + 1))

Do_LOG_DEBUG ==
    \E msg \in Messages, now \in Times :
        Writes("LOG_DEBUG", DEBUG, msg, NULL, 0, TRUE, LOG_DEBUG(msg, now, calls + 1))

Do_LOG_WARN ==
    \E msg \in Messages, line__ \in CallSiteLines, now \in Times :
        Writes("LOG_WARN", WARN, msg, FILE_, line__, TRUE,
               LOG_WARN(msg, line__, now, calls + 1))

Do_LOG_ERROR ==
    \E msg \in Messages, line__ \in CallSiteLines, now \in Times :
        Writes("LOG_ERROR", ERROR, msg, FILE_, line__, TRUE,
               LOG_ERROR(msg, line__, now, calls + 1))

Do_LOG_CUSTOM ==
    \E level \in LevelValues, msg \in Messages, now \in Times :
        Writes("LOG_CUSTOM", level, msg, NULL, 0, TRUE,
               LOG_CUSTOM(level, msg, now, calls + 1))

Do_LOG_IF ==
    \E condition \in BOOLEAN, level \in LevelValues, msg \in Messages, now \in Times :
        Writes("LOG_IF", level, msg, NULL, 0, condition,
               LOG_IF(condition, level, msg, now, calls + 1))

Next ==
    \/ Do_set_log_level
    \/ Do_log
    \/ Do_LOG_INFO
    \/ Do_LOG_DEBUG
    \/ Do_LOG_WARN
    \/ Do_LOG_ERROR
    \/ Do_LOG_CUSTOM
    \/ Do_LOG_IF

Spec == Init /\ [][Next]_vars

\* --------------------------------------------- ConcSpec: several threads

\* A thread enters Logger::log.
call_log(t) ==
    \E level \in LogLevel, message \in ConcMessages, file \in ConcFiles, line \in ConcLines :
        /\ pc[t] = "idle"
        /\ calls < MaxConcCalls
        /\ calls' = calls + 1
        /\ pc' = [pc EXCEPT ![t] = "log_filter"]
        /\ frame' = [frame EXCEPT ![t] =
                        [NoFrame EXCEPT !.level = level, !.message = message,
                                        !.file = file, !.line = line, !.id = calls + 1]]
        /\ UNCHANGED <<log_level_, cout, cerr, last, prev, configured, started, reads>>

\* The atomic load of the filter and, when the call goes on, the formatting
\* into the call's own ostringstream, which no other thread can observe.
log_filter(t) ==
    \E now \in Times :
        LET f == frame[t]
            ins == Inserts(f.level, Assemble(f.level, f.message, f.file, f.line, now))
        IN  /\ pc[t] = "log_filter"
            /\ reads' = reads \cup {load}
            /\ IF Suppressed(f.level, load)
               THEN /\ pc' = [pc EXCEPT ![t] = "idle"]
                    /\ frame' = [frame EXCEPT ![t] = NoFrame]
               ELSE /\ pc' = [pc EXCEPT ![t] = "log_insert"]
                    /\ frame' = [frame EXCEPT ![t].stream = ins.stream,
                                              ![t].chunks = ins.chunks]
            /\ UNCHANGED <<log_level_, cout, cerr, calls, last, prev, configured, started>>

\* One operator<< on the chosen stream: the stream's own lock makes the
\* tokens of this one insertion atomic, and nothing holds it across two.
log_insert(t) ==
    LET f == frame[t]
        toks == Tag(f.id, Head(f.chunks))
    IN  /\ pc[t] = "log_insert"
        /\ IF f.stream = "cerr"
           THEN cerr' = cerr \o toks /\ UNCHANGED cout
           ELSE cout' = cout \o toks /\ UNCHANGED cerr
        /\ IF Tail(f.chunks) = <<>>
           THEN /\ pc' = [pc EXCEPT ![t] = "idle"]
                /\ frame' = [frame EXCEPT ![t] = NoFrame]
           ELSE /\ pc' = pc
                /\ frame' = [frame EXCEPT ![t].chunks = Tail(f.chunks)]
        /\ UNCHANGED <<log_level_, calls, last, prev, configured, started, reads>>

\* A thread enters Logger::set_log_level.
call_set_log_level(t) ==
    \E level \in LogLevel :
        /\ pc[t] = "idle"
        /\ calls < MaxConcCalls
        /\ calls' = calls + 1
        /\ pc' = [pc EXCEPT ![t] = "store"]
        /\ frame' = [frame EXCEPT ![t] = [NoFrame EXCEPT !.level = level, !.id = calls + 1]]
        /\ started' = started \cup {level}
        /\ UNCHANGED <<log_level_, cout, cerr, last, prev, configured, reads>>

\* The atomic store, and the return.
set_log_level_store(t) ==
    /\ pc[t] = "store"
    /\ log_level_' = set_log_level(frame[t].level)
    /\ configured' = frame[t].level
    /\ pc' = [pc EXCEPT ![t] = "idle"]
    /\ frame' = [frame EXCEPT ![t] = NoFrame]
    /\ UNCHANGED <<cout, cerr, calls, last, prev, started, reads>>

ConcNext ==
    \E t \in Threads :
        \/ call_log(t)
        \/ log_filter(t)
        \/ log_insert(t)
        \/ call_set_log_level(t)
        \/ set_log_level_store(t)

ConcSpec == Init /\ [][ConcNext]_vars


\* ===================================================== the properties

\* What the last call of Spec appended to each stream.
OutDelta == SubSeq(cout, last.nout + 1, Len(cout))
ErrDelta == SubSeq(cerr, last.nerr + 1, Len(cerr))

Toks(s) == [i \in 1..Len(s) |-> s[i].tok]

\* The tokens the last call of Spec wrote, on either stream.
Written == Toks(OutDelta \o ErrDelta)

Emitted == Written # <<>>

\* The last call of Spec reached Logger::log.
IsLog(c) == c.op \notin {"none", "set_log_level"} /\ c.cond

Escapes == {RESET, CYAN, YELLOW, RED}

\* The display names and colours as the specification lists them.
NameOf(level) ==
    CASE level = DEBUG -> "DEBUG" [] level = INFO -> "INFO"
      [] level = WARN -> "WARN" [] level = ERROR -> "ERROR" [] OTHER -> "UNKNOWN"

ColourOf(level) ==
    CASE level = WARN -> YELLOW [] level = ERROR -> RED [] OTHER -> RESET

\* toks is one line: a timestamp (date and time to the second, a dot, three
\* digits), the bracketed name, the message, and after the message only
\* what `rest` allows, the newline being the last token and the only one.
IsLine(toks, first, name, message, rest) ==
    /\ Len(toks) >= first + 7
    /\ Len(toks[first]) = 19
    /\ toks[first + 1] = "."
    /\ Len(toks[first + 2]) = 3
    /\ toks[first + 3] = " ["
    /\ toks[first + 4] = name
    /\ toks[first + 5] = "] "
    /\ toks[first + 6] = message
    /\ SubSeq(toks, first + 7, Len(toks) - 1) \in rest
    /\ toks[Len(toks)] = ENDL
    /\ Cardinality({i \in 1..Len(toks) : toks[i] = ENDL}) = 1

Location(file, line) == <<" [at ", file, ":", ToString(line), "]">>

\* What may stand between the message and the newline.
Tails(c) ==
    {<<>>, <<RESET>>, Location(c.file, c.line), Location(c.file, c.line) \o <<RESET>>}

\* C1: a call log(L, msg) made while the threshold is T writes nothing when
\* L < T, and when L >= T writes exactly one line: the timestamp, the level's
\* name in brackets and the message as given.
C1_FilterExact ==
    IsLog(last) =>
        /\ last.threshold \in LogLevel
        /\ IF last.level < last.threshold
           THEN ~Emitted
           ELSE \E first \in 1..2 :
                    IsLine(Written, first, NameOf(last.level), last.message, Tails(last))

C1_Witness ==
    /\ last.op = "log" /\ last.threshold = WARN /\ last.level = WARN /\ Emitted
    /\ prev.op = "set_log_level"

\* C2: a line is routed by its level alone.  At WARN and above it goes to
\* the error stream, between a non-empty colour escape (the level's own, for
\* an enumerated level) and the reset escape; below WARN it goes to the
\* standard stream with no escape added; no call writes to both streams.
C2_Routing ==
    IsLog(last) /\ Emitted =>
        LET e == Toks(ErrDelta)
            o == Toks(OutDelta)
        IN  IF last.level >= WARN
            THEN /\ o = <<>>
                 /\ e[1] # "" /\ e[1] \in Escapes
                 /\ last.level \in LogLevel => e[1] = ColourOf(last.level) /\ e[1] # RESET
                 /\ e[Len(e) - 1] = RESET
                 /\ e[Len(e)] = ENDL
                 /\ \A i \in 2..(Len(e) - 2) : e[i] \notin Escapes
            ELSE /\ e = <<>>
                 /\ \A i \in 1..Len(o) : o[i] \notin Escapes

C2_Witness ==
    /\ last.op = "log" /\ last.level = WARN /\ Len(ErrDelta) > 0
    /\ prev.op = "log" /\ Len(cout) > 0

\* The line the last call wrote ends with the location of that call.
EndsWithLocation ==
    \E i \in 1..(Len(Written) - 4) :
        /\ SubSeq(Written, i, i + 4) = Location(last.file, last.line)
        /\ \A j \in (i + 5)..Len(Written) : Written[j] \in {RESET, ENDL}

\* C3: an emitted line ends with " [at <file>:<line>]" exactly when the
\* level is WARN or higher, a file was supplied and the line is > 0.
C3_Location ==
    IsLog(last) /\ Emitted =>
        /\ EndsWithLocation <=> (last.level >= WARN /\ last.file # NULL /\ last.line > 0)
        /\ ~EndsWithLocation => \A i \in 1..Len(Written) : Written[i] # " [at "

C3_Witness ==
    /\ last.op = "log" /\ last.level = ERROR /\ last.file = FILE_ /\ last.line \in Lines
    /\ last.line > 0 /\ EndsWithLocation

\* C4: every log call filters against the argument of the latest set_level
\* call before it (INFO when there is none) and leaves the threshold as it
\* found it; after set_level(ERROR) a warn call writes nothing and an error
\* call writes a line.
C4_LatestSetLevel ==
    /\ log_level_ = configured
    /\ IsLog(last) =>
        /\ log_level_ = last.threshold
        /\ Emitted <=> last.level >= configured
    /\ (last.op = "LOG_WARN" /\ configured = ERROR) => ~Emitted
    /\ (last.op = "LOG_ERROR" /\ configured = ERROR) => Emitted

C4_Witness ==
    /\ prev.op = "set_log_level" /\ prev.level = ERROR
    /\ last.op = "LOG_WARN" /\ ~Emitted

\* C5: before any set_level call the threshold is INFO: debug writes
\* nothing, info writes one plain [INFO] line to the standard stream, warn
\* and error each write one coloured [WARN] / [ERROR] line to the error
\* stream, ending with the location of the call.
C5_Defaults ==
    started = {} =>
        /\ log_level_ = INFO
        /\ last.op = "LOG_DEBUG" => ~Emitted
        /\ last.op = "LOG_INFO" =>
            /\ ErrDelta = <<>>
            /\ IsLine(Toks(OutDelta), 1, "INFO", last.message, {<<>>})
        /\ last.op = "LOG_WARN" =>
            /\ OutDelta = <<>>
            /\ IsLine(Toks(ErrDelta), 2, "WARN", last.message,
                      {Location(FILE_, last.line) \o <<RESET>>})
            /\ Toks(ErrDelta)[1] = YELLOW
        /\ last.op = "LOG_ERROR" =>
            /\ OutDelta = <<>>
            /\ IsLine(Toks(ErrDelta), 2, "ERROR", last.message,
                      {Location(FILE_, last.line) \o <<RESET>>})
            /\ Toks(ErrDelta)[1] = RED

C5_Witness ==
    /\ started = {} /\ last.op = "LOG_ERROR" /\ Len(ErrDelta) > 0
    /\ prev.op = "log" /\ Len(cout) > 0

\* The tokens of each call stand together on stream s.
Contiguous(s) ==
    \A i, j \in 1..Len(s) :
        (i < j /\ s[i].by = s[j].by) => \A k \in i..j : s[k].by = s[i].by

\* C6: with several threads in log, the tokens of one call (colour, text,
\* reset, newline) stand together on their stream, with no token of another
\* call between them.
C6_LinesContiguous == Contiguous(cout) /\ Contiguous(cerr)

\* C7: under any interleaving, the threshold a log call filters against is
\* a value that was stored whole: INFO, or the argument of a set_level call
\* that has begun; the threshold is the argument of the latest store, and
\* once every set_level call has returned it is the argument of one of them.
C7_NoTornValue ==
    /\ reads \subseteq ({INFO} \cup started)
    /\ log_level_ \in ({INFO} \cup started)
    /\ log_level_ = configured
    /\ (started # {} /\ \A t \in Threads : pc[t] # "store") => log_level_ \in started

C7_Witness ==
    /\ reads \cap (started \ {INFO}) # {}
    /\ \E t \in Threads : pc[t] = "log_insert" /\ frame[t].level < WARN
    /\ \A t \in Threads : pc[t] # "store"

\* C8: a level with no enumerator does not make log fail: the call is
\* filtered like any other, and a line it writes carries [UNKNOWN] and, on
\* the error stream, the reset escape as its colour.
C8_UnknownLevel ==
    (IsLog(last) /\ last.level \notin LogLevel) =>
        IF last.level < last.threshold
        THEN ~Emitted
        ELSE /\ Emitted
             /\ \E first \in 1..2 :
                    IsLine(Written, first, "UNKNOWN", last.message, Tails(last))
             /\ ErrDelta # <<>> => Toks(ErrDelta)[1] = RESET

C8_Witness ==
    /\ last.op = "LOG_CUSTOM" /\ last.level = ERROR + 1 /\ Len(ErrDelta) > 0
    /\ last.threshold = ERROR

\* C9: set_level(T) called twice in a row leaves the logger as one call
\* does: the same threshold, hence the same filtering of every level, and
\* no output.
C9_Idempotent ==
    (last.op = "set_log_level" /\ prev.op = "set_log_level" /\ prev.level = last.level) =>
        /\ log_level_ = prev.after
        /\ \A level \in LevelValues :
               Suppressed(level, log_level_) <=> Suppressed(level, prev.after)
        /\ ~Emitted

C9_Witness ==
    /\ last.op = "set_log_level" /\ prev.op = "set_log_level"
    /\ prev.level = last.level /\ last.level = WARN
    /\ prev.before = ERROR

\* C10: conditional(predicate, level, msg) writes exactly when the
\* predicate is true and level >= threshold, and then writes what
\* log(level, msg) writes with no file and no line, so no location; with a
\* false predicate it writes nothing and changes no state.
C10_Conditional ==
    last.op = "LOG_IF" =>
        /\ Emitted <=> (last.cond /\ last.level >= last.threshold)
        /\ log_level_ = last.threshold
        /\ \A i \in 1..Len(Written) : Written[i] # " [at "
        /\ IF last.cond
           THEN \E now \in Times :
                    [out |-> OutDelta, err |-> ErrDelta]
                        = log(last.level, last.message, NULL, 0, now, last.id)
           ELSE OutDelta = <<>> /\ ErrDelta = <<>>

C10_Witness ==
    /\ last.op = "LOG_IF" /\ last.cond /\ last.level = ERROR /\ Len(ErrDelta) > 0
    /\ prev.op = "log"

====
